---- MODULE Spec2Model ----
(***************************************************************************)
(* A model of src/2025/esrimap.py: the EsriJSMap session (its layer        *)
(* sequence and spatial-reference option), add_layer with the directive    *)
(* objects it is handed, the feature-layer serializer and the extent       *)
(* aggregation and padding of _generate_layers_js.                         *)
(*                                                                         *)
(* Numbers.  A Python float is a record [nan, v]: NaN, or the number v.    *)
(* Coordinates are drawn from multiples of 10, so that the product with    *)
(* .1 taken by the padding step is a whole number and is computed exactly. *)
(*                                                                         *)
(* Identifiers.  monotonically_increasing_id() puts the partition index in *)
(* the upper 31 bits and the record number within the partition in the     *)
(* lower 33 bits; an identifier is held as the pair [hi, lo] standing for  *)
(* hi * 2^33 + lo.                                                         *)
(***************************************************************************)
EXTENDS Integers, Sequences, FiniteSets, TLC

VARIABLES
  basemap_sr,   \* self.basemap_sr
  layers,       \* self.layers
  directives,   \* the caller's directive dictionaries, by object
  requested_sr, \* the basemap_sr argument the session was constructed with
  last          \* the most recent operation: its arguments and what it returned or raised

vars == <<basemap_sr, layers, directives, requested_sr, last>>

----------------------------------------------------------------------------
(* Bounds *)

MaxLayers == 2

\* the largest max_records tried below the default
MaxCap == 3

----------------------------------------------------------------------------
(* Python floats, min and max *)

NaN == [nan |-> TRUE, v |-> 0]

Num(n) == [nan |-> FALSE, v |-> n]

\* a < b on floats: every comparison with NaN is false
Lt(a, b) == ~a.nan /\ ~b.nan /\ a.v < b.v

\* min(a, b): the first argument, unless the second is smaller
PyMin(a, b) == IF Lt(b, a) THEN b ELSE a

\* max(a, b): the first argument, unless the second is greater
PyMax(a, b) == IF Lt(a, b) THEN b ELSE a

FSub(a, b) == IF a.nan \/ b.nan THEN NaN ELSE Num(a.v - b.v)

FAdd(a, b) == IF a.nan \/ b.nan THEN NaN ELSE Num(a.v + b.v)

\* a * .1
TimesTenth(a) == IF a.nan THEN NaN ELSE Num(a.v \div 10)

EmptyExtent == <<NaN, NaN, NaN, NaN>>

Populated(e) == \A i \in 1..4 : ~e[i].nan

----------------------------------------------------------------------------
(* Extent aggregation *)

\* target after _merge_extent(target, merge)
_merge_extent(target, merge) ==
  << PyMin(merge[1], target[1]),
     PyMin(merge[2], target[2]),
     PyMax(merge[3], target[3]),
     PyMax(merge[4], target[4]) >>

----------------------------------------------------------------------------
(* Schema and type mapping *)

\* _geometry_mapping, keyed by the simpleString of the geometry type
_geometry_mapping ==
  [ point |-> "Point", polygon |-> "Polygon",
    linestring |-> "Polyline", multipoint |-> "Multipoint" ]

_type_mapping ==
  [ string |-> "string", short |-> "small-integer", integer |-> "integer",
    long |-> "big-integer", float |-> "single", double |-> "double" ]

\* dict.get(key, None)
TypeName(t) == IF t \in DOMAIN _type_mapping THEN _type_mapping[t] ELSE "null"

\* str.lower() of the constructor names
Lower(ctor) ==
  CASE ctor = "Point" -> "point"
    [] ctor = "Polygon" -> "polygon"
    [] ctor = "Polyline" -> "polyline"
    [] ctor = "Multipoint" -> "multipoint"

oid_field == "__oid__"

----------------------------------------------------------------------------
(* The dataframe collaborator *)

\* A dataframe: geometry_field ("None" when there is none), the simpleString
\* of the geometry column's type, whether a spatial reference is declared,
\* the attribute columns' type names, and the rows (their bounding boxes)
\* by partition.

\* the identifier without the "+ 1"
OidFromZero(p, i) == [hi |-> p, lo |-> i]

\* F.monotonically_increasing_id() + 1 for the i-th record of partition p
\* (both counted from 0)
Oid(p, i) == [hi |-> p, lo |-> i + 1]

OidLess(a, b) == a.hi < b.hi \/ (a.hi = b.hi /\ a.lo < b.lo)

\* the rows of one partition, each with its identifier
PartitionRows(part, p) ==
  [i \in 1..Len(part) |-> [oid |-> Oid(p, i - 1), box |-> part[i]]]

RECURSIVE RowsFrom(_, _)
\* the rows of partitions p.. in partition order
RowsFrom(partitions, p) ==
  IF p > Len(partitions) THEN << >>
  ELSE PartitionRows(partitions[p], p - 1) \o RowsFrom(partitions, p + 1)

\* a take that ignores the cap
TakeAll(rows, n) == rows

\* df.take(n)
Take(rows, n) == SubSeq(rows, 1, IF n < Len(rows) THEN n ELSE Len(rows))

RowCount(df) == Len(RowsFrom(df.partitions, 1))

----------------------------------------------------------------------------
(* _make_feature_layer_js *)

Raise(what) ==
  [raised |-> what, features |-> << >>, fields |-> {}, geometryType |-> "",
   wkid |-> 0, extent |-> EmptyExtent]

RECURSIVE FoldRows(_, _, _)
\* the loop over rows: extent after merging the boxes row[2:6] of rows i..
FoldRows(extent, boxes, i) ==
  IF i > Len(boxes) THEN extent
  ELSE FoldRows(_merge_extent(extent, boxes[i]), boxes, i + 1)

\* the field descriptors of the selected attributes
FieldsJson(df, selected_attributes) ==
  { [name |-> f,
     type |-> IF f = oid_field THEN TypeName("long") ELSE TypeName(df.types[f])]
    : f \in selected_attributes }

_make_feature_layer_js(df, map_sr, fields, max_records) ==
  IF df.geometry_field = "None"
    THEN Raise("ValueError: Unable to determine geometry field")
  ELSE IF ~df.has_sr
    THEN Raise("ValueError: Spatial reference is required")
  ELSE IF ~(fields \subseteq DOMAIN df.types)
    THEN Raise("AnalysisException: unresolved column")
  ELSE IF df.geometry_type \notin DOMAIN _geometry_mapping
    THEN Raise("AttributeError: 'NoneType' object has no attribute 'lower'")
  ELSE
    LET selected_attributes == (fields \ {df.geometry_field}) \cup {oid_field}
        rows == Take(RowsFrom(df.partitions, 1), max_records)
        features == [i \in 1..Len(rows) |->
                       [oid |-> rows[i].oid, attributes |-> selected_attributes,
                        geometry |-> rows[i].box]]
    IN [raised |-> "no",
        features |-> features,
        fields |-> FieldsJson(df, selected_attributes),
        geometryType |-> Lower(_geometry_mapping[df.geometry_type]),
        wkid |-> map_sr,
        extent |-> FoldRows(EmptyExtent, [i \in 1..Len(rows) |-> rows[i].box], 1)]

----------------------------------------------------------------------------
(* _generate_layers_js *)

RECURSIVE MergeLayers(_, _, _)
\* the loop over self.layers: extent after merging layers i.. into it
MergeLayers(extent, ls, i) ==
  IF i > Len(ls) THEN extent
  ELSE MergeLayers(_merge_extent(extent, ls[i].extent), ls, i + 1)

\* a padding of 20% of the width and height on every side
PadFifth(extent) ==
  LET pad_width == TimesTenth(FSub(extent[3], extent[1]))
      pad_height == TimesTenth(FSub(extent[4], extent[2]))
  IN << FSub(FSub(extent[1], pad_width), pad_width),
        FSub(FSub(extent[2], pad_height), pad_height),
        FAdd(FAdd(extent[3], pad_width), pad_width),
        FAdd(FAdd(extent[4], pad_height), pad_height) >>

\* "Pad extent by 20%"
Pad(extent) ==
  LET pad_width == TimesTenth(FSub(extent[3], extent[1]))
      pad_height == TimesTenth(FSub(extent[4], extent[2]))
  IN << FSub(extent[1], pad_width), FSub(extent[2], pad_height),
        FAdd(extent[3], pad_width), FAdd(extent[4], pad_height) >>

_generate_layers_js(ls) ==
  LET extent == MergeLayers(EmptyExtent, ls, 1)
  IN [layers_js |-> [i \in 1..Len(ls) |-> [index |-> i - 1, layer |-> ls[i]]],
      extent |-> extent,
      extent_js |-> Pad(extent)]

----------------------------------------------------------------------------
(* Directive builders: Labels, Popups, Renderers *)

\* A directive dictionary: body is everything but the "_references" entry.
Directive(type, of, style, has_references, references) ==
  [body |-> [type |-> type, of |-> of, style |-> style],
   has_references |-> has_references, references |-> references]

\* what the layer holds for an absent directive: "null"
Null == Directive("null", {}, "", FALSE, {})

Labels_field(field) == Directive("text", {field}, "", TRUE, {field})

Popups_fields(fields) == Directive("Fields", fields, "html", TRUE, fields)

Popups_fields_table(fields) == Directive("Fields", fields, "fields", TRUE, fields)

marker_style_options ==
  {"circle", "square", "cross", "x", "diamond", "triangle", "path"}

line_style_options ==
  {"dash", "dash-dot", "dot", "long-dash", "long-dash-dot", "long-dash-dot-dot",
   "none", "short-dash", "short-dash-dot", "short-dash-dot-dot", "short-dot",
   "solid"}

fill_style_options ==
  {"backward-diagonal", "cross", "diagonal-cross", "forward-diagonal",
   "horizontal", "none", "solid", "vertical"}

\* the style keyword of **render_args, or the builder's default
StyleOf(render_args, default) ==
  IF "style" \in DOMAIN render_args THEN render_args["style"] ELSE default

\* Each builder: [failed, dict]; failed is the assert on the style token.
Renderers_simple_marker(render_args) ==
  LET style == StyleOf(render_args, "circle")
  IN [failed |-> style \notin marker_style_options,
      dict |-> Directive("simple-marker", {}, style, FALSE, {})]

Renderers_simple_line(render_args) ==
  LET style == StyleOf(render_args, "solid")
  IN [failed |-> style \notin line_style_options,
      dict |-> Directive("simple-line", {}, style, FALSE, {})]

Renderers_simple_fill(render_args) ==
  LET style == StyleOf(render_args, "solid")
  IN [failed |-> style \notin fill_style_options,
      dict |-> Directive("simple-fill", {}, style, FALSE, {})]

----------------------------------------------------------------------------
(* add_layer *)

\* An argument of add_layer, by its Python shape: None, a dict (one of the
\* caller's objects), a str, a list or tuple of names, or anything else.
None == [shape |-> "none", obj |-> "", names |-> {}]

Dict(o) == [shape |-> "dict", obj |-> o, names |-> {}]

Str(f) == [shape |-> "str", obj |-> "", names |-> {f}]

List(fs) == [shape |-> "list", obj |-> "", names |-> fs]

Other == [shape |-> "other", obj |-> "", names |-> {}]

\* A directive as add_layer holds it after the shape checks: nothing, one
\* of the caller's objects, or a dictionary built during the call.
Absent == [kind |-> "none", obj |-> "", dict |-> Null]

Held(o) == [kind |-> "held", obj |-> o, dict |-> Null]

Built(d) == [kind |-> "built", obj |-> "", dict |-> d]

\* a pop that takes the references only of the caller's own objects
PopReferencesHeldOnly(heap, item) ==
  IF item.kind = "held" THEN
    LET d == heap[item.obj]
        after == [d EXCEPT !.has_references = FALSE, !.references = {}]
    IN [names |-> d.references, dict |-> after,
        heap |-> [heap EXCEPT ![item.obj] = after]]
  ELSE IF item.kind = "built" THEN
    [names |-> {},
     dict |-> [item.dict EXCEPT !.has_references = FALSE, !.references = {}],
     heap |-> heap]
  ELSE [names |-> {}, dict |-> Null, heap |-> heap]

\* item.pop("_references", []) for one item: the names popped, the item's
\* dictionary afterwards and the caller's objects afterwards
PopReferences(heap, item) ==
  IF item.kind = "held" THEN
    LET d == heap[item.obj]
        after == [d EXCEPT !.has_references = FALSE, !.references = {}]
    IN [names |-> d.references, dict |-> after,
        heap |-> [heap EXCEPT ![item.obj] = after]]
  ELSE IF item.kind = "built" THEN
    [names |-> item.dict.references,
     dict |-> [item.dict EXCEPT !.has_references = FALSE, !.references = {}],
     heap |-> heap]
  ELSE [names |-> {}, dict |-> Null, heap |-> heap]

\* "null" if the directive is None else dumps(directive), taken after the
\* pops: popped is the item's PopReferences, heap the caller's objects then
Dumps(item, popped, heap) ==
  IF item.kind = "held" THEN heap[item.obj]
  ELSE IF item.kind = "built" THEN popped.dict
  ELSE Null

\* the renderer pulled out of render_args: [failed, item]
RendererFromArgs(df, render_args) ==
  IF df.geometry_field = "None" THEN [failed |-> FALSE, item |-> Absent]
  ELSE IF df.geometry_type \in {"point", "multipoint"} THEN
    LET r == Renderers_simple_marker(render_args)
    IN [failed |-> r.failed, item |-> Built(r.dict)]
  ELSE IF df.geometry_type = "linestring" THEN
    LET r == Renderers_simple_line(render_args)
    IN [failed |-> r.failed, item |-> Built(r.dict)]
  ELSE IF df.geometry_type = "polygon" THEN
    LET r == Renderers_simple_fill(render_args)
    IN [failed |-> r.failed, item |-> Built(r.dict)]
  ELSE [failed |-> FALSE, item |-> Absent]

\* the result of a call: what it raised ("no" when it returned), self.layers
\* and the caller's objects afterwards, and the names handed to the serializer
Result(raised, ls, heap, field_set) ==
  [raised |-> raised, layers |-> ls, directives |-> heap, field_set |-> field_set]

\* a raise that comes after an append of the layer built so far
RaisedAfterAppend(what, self_layers, heap, field_set) ==
  Result(what,
         Append(self_layers,
           [features |-> [source |-> << >>, fields |-> {}, geometryType |-> "",
                          wkid |-> 0, objectIdField |-> oid_field],
            renderer |-> Null, labelingInfo |-> Null, popupTemplate |-> Null,
            extent |-> EmptyExtent]),
         heap, field_set)

\* a raise inside add_layer: the exception leaves the call before the append
Raised(what, self_layers, heap, field_set) ==
  Result(what, self_layers, heap, field_set)

add_layer(self_layers, self_basemap_sr, heap, call) ==
  IF call.label.shape \notin {"none", "dict", "str"}
    THEN Raised("ValueError: Unexpected value for 'label'", self_layers, heap, {})
  ELSE IF call.popup.shape \notin {"none", "dict", "list"}
    THEN Raised("ValueError: Unexpected value for 'popup'", self_layers, heap, {})
  ELSE
    LET label == IF call.label.shape = "str"
                   THEN Built(Labels_field(CHOOSE f \in call.label.names : TRUE))
                 ELSE IF call.label.shape = "dict" THEN Held(call.label.obj)
                 ELSE Absent
        popup == IF call.popup.shape = "list" THEN Built(Popups_fields(call.popup.names))
                 ELSE IF call.popup.shape = "dict" THEN Held(call.popup.obj)
                 ELSE Absent
        from_args == IF call.renderer.shape = "none" /\ DOMAIN call.render_args # {}
                       THEN RendererFromArgs(call.df, call.render_args)
                       ELSE [failed |-> FALSE, item |-> Absent]
        renderer == IF call.renderer.shape = "dict" THEN Held(call.renderer.obj)
                    ELSE from_args.item
    IN
    IF from_args.failed
      THEN Raised("AssertionError: style must be one of", self_layers, heap, {})
    ELSE IF call.renderer.shape \notin {"none", "dict"}
      THEN Raised("AttributeError: object has no attribute 'pop'", self_layers, heap, {})
    ELSE
      LET p1 == PopReferences(heap, renderer)
          p2 == PopReferences(p1.heap, label)
          p3 == PopReferences(p2.heap, popup)
          field_set == call.fields \cup p1.names \cup p2.names \cup p3.names
          made == _make_feature_layer_js(call.df, self_basemap_sr, field_set,
                                         call.max_records)
      IN
      IF made.raised # "no"
        THEN Raised(made.raised, self_layers, p3.heap, field_set)
      ELSE Result("no",
             Append(self_layers,
               [features |-> [source |-> made.features, fields |-> made.fields,
                              geometryType |-> made.geometryType,
                              wkid |-> made.wkid, objectIdField |-> oid_field],
                renderer |-> Dumps(renderer, p1, p3.heap),
                labelingInfo |-> Dumps(label, p2, p3.heap),
                popupTemplate |-> Dumps(popup, p3, p3.heap),
                extent |-> made.extent]),
             p3.heap, field_set)

----------------------------------------------------------------------------
(* Inputs *)

\* the default of the basemap_sr parameter
DefaultSr == 4326

\* what __init__ assigns to self.basemap_sr
AssignedSr == 4326

\* the default of the max_records parameter
DefaultMaxRecords == 100000

\* spatial-reference codes a session is constructed with
SrCodes == {DefaultSr, 3857}

\* **render_args
NoArgs == [k \in {} |-> ""]

StyleArgs(style) == [k \in {"style"} |-> style]

Call(df, renderer, label, popup, max_records, fields, render_args) ==
  [df |-> df, renderer |-> renderer, label |-> label, popup |-> popup,
   max_records |-> max_records, fields |-> fields, render_args |-> render_args]

Frame(geometry_field, geometry_type, has_sr, types, partitions) ==
  [geometry_field |-> geometry_field, geometry_type |-> geometry_type,
   has_sr |-> has_sr, types |-> types, partitions |-> partitions]

\* the bounding box of a point
PointBox(x, y) == <<Num(x), Num(y), Num(x), Num(y)>>

\* A table of points in two partitions; the frames of the row workload are
\* its filters, which keep the partitioning (a filter may empty a partition).
Table == << <<PointBox(0, 0), PointBox(10, 10)>>, <<PointBox(20, 0)>> >>

TableBoxes == UNION { {Table[p][i] : i \in DOMAIN Table[p]} : p \in DOMAIN Table }

Filter(partitions, keep) ==
  [p \in DOMAIN partitions |-> SelectSeq(partitions[p], LAMBDA box : box \in keep)]

PointTypes == [geom |-> "point", name |-> "string", pop |-> "long"]

RowFrames ==
  { Frame("geom", "point", TRUE, PointTypes, Filter(Table, keep)) :
      keep \in SUBSET TableBoxes }

Caps == 0..MaxCap \cup {DefaultMaxRecords}

RowCalls ==
  { Call(df, None, None, None, m, {}, NoArgs) : df \in RowFrames, m \in Caps }

----------------------------------------------------------------------------
(* The session *)

NoCall == Call(Frame("None", "", FALSE, PointTypes, << >>), None, None, None, 0, {}, NoArgs)

\* before and layers_before: the caller's objects and self.layers when the
\* operation began
Last(op, call, before, layers_before, result, output) ==
  [op |-> op, call |-> call, before |-> before, layers_before |-> layers_before,
   raised |-> result.raised,
   field_set |-> result.field_set, extent |-> output.extent,
   extent_js |-> output.extent_js]

NoResult == Result("no", << >>, << >>, {})

NoOutput == [extent |-> EmptyExtent, extent_js |-> EmptyExtent]

\* the caller's directive objects as their builders return them
Fresh ==
  [ d1 |-> Labels_field("name"), d2 |-> Popups_fields_table({"name", "pop"}) ]

Objects == DOMAIN Fresh

Init ==
  /\ requested_sr \in SrCodes
  /\ basemap_sr = AssignedSr
  /\ layers = << >>
  /\ directives = Fresh
  /\ last = Last("init", NoCall, directives, << >>, NoResult, NoOutput)

\* EsriJSMap(basemap_sr = c): a new session
Construct(c) ==
  /\ requested_sr' = c
  /\ basemap_sr' = AssignedSr
  /\ layers' = << >>
  /\ last' = Last("init", NoCall, directives, << >>, NoResult, NoOutput)
  /\ UNCHANGED directives

\* the caller builds directive object o anew
Build(o) ==
  /\ directives[o] # Fresh[o]
  /\ directives' = [directives EXCEPT ![o] = Fresh[o]]
  /\ last' = Last("build", NoCall, directives, layers, NoResult, NoOutput)
  /\ UNCHANGED <<basemap_sr, layers, requested_sr>>

AddLayer(call) ==
  /\ Len(layers) < MaxLayers
  /\ LET result == add_layer(layers, basemap_sr, directives, call)
     IN /\ layers' = result.layers
        /\ directives' = result.directives
        /\ last' = Last("add_layer", call, directives, layers, result, NoOutput)
  /\ UNCHANGED <<basemap_sr, requested_sr>>

Display ==
  /\ last' = Last("display", NoCall, directives, layers, NoResult,
                  _generate_layers_js(layers))
  /\ UNCHANGED <<basemap_sr, layers, directives, requested_sr>>

\* the row workload: frames that differ in their rows, added under every cap
NextRows ==
  \/ \E c \in SrCodes : Construct(c)
  \/ \E call \in RowCalls : AddLayer(call)
  \/ Display

SpecRows == Init /\ [][NextRows]_vars

----------------------------------------------------------------------------
(* The directive workload: one frame, added with every combination of
   directive arguments and allow-lists *)

PointFrame == Frame("geom", "point", TRUE, PointTypes, Table)

\* renderer, label and popup: none, each shorthand, each of the caller's
\* objects in each role, one object in two roles, and all three at once
DirectiveArguments ==
  { <<None, None, None>>,
    <<None, Str("name"), None>>,
    <<None, None, List({"pop"})>>,
    <<Dict("d2"), None, None>>,
    <<None, Dict("d1"), None>>,
    <<None, Str("name"), Dict("d2")>>,
    <<None, Dict("d1"), Dict("d1")>>,
    <<Dict("d2"), Dict("d1"), List({"pop"})>> }

DirectiveCalls ==
  { Call(PointFrame, a[1], a[2], a[3], DefaultMaxRecords, fields, NoArgs) :
      a \in DirectiveArguments, fields \in {{}, {"pop"}, {"geom", "name"}} }

Next ==
  \/ \E c \in SrCodes : Construct(c)
  \/ \E o \in Objects : Build(o)
  \/ \E call \in DirectiveCalls : AddLayer(call)
  \/ Display

Spec == Init /\ [][Next]_vars

----------------------------------------------------------------------------
(* The failure workload: calls that raise, calls on frames with an unmapped
   column type, and the calls that build a renderer from render_args *)

TypedFrame(pop_type) ==
  Frame("geom", "point", TRUE, [PointTypes EXCEPT !.pop = pop_type], Table)

GeometryFrame(geometry_type) ==
  Frame("geom", geometry_type, TRUE, [PointTypes EXCEPT !.geom = geometry_type], Table)

NoGeometryFrame ==
  Frame("None", "", TRUE, [name |-> "string", pop |-> "long"], Table)

NoSrFrame == Frame("geom", "point", FALSE, PointTypes, Table)

Plain(df, label, popup, fields) ==
  Call(df, None, label, popup, DefaultMaxRecords, fields, NoArgs)

FailureCalls ==
  { Plain(PointFrame, label, popup, {}) :
      label \in {None, Other, Dict("d1")}, popup \in {None, Other} }
  \cup
  { Plain(df, label, None, fields) :
      df \in {NoGeometryFrame, NoSrFrame, GeometryFrame("geometry")},
      label \in {None, Dict("d1")}, fields \in {{}} }
  \cup
  { Plain(PointFrame, None, None, {"missing"}),
    Call(PointFrame, Other, None, None, DefaultMaxRecords, {}, NoArgs) }
  \cup
  { Plain(TypedFrame(t), None, popup, fields) :
      t \in {"long", "date"}, popup \in {None, Dict("d2")},
      fields \in {{}, {"pop"}} }
  \cup
  { Call(GeometryFrame(g), None, None, None, DefaultMaxRecords, {}, args) :
      g \in {"point", "multipoint", "linestring", "polygon", "geometry"},
      args \in {StyleArgs("circle"), StyleArgs("solid"), StyleArgs("hexagon")} }

NextFailures ==
  \/ \E c \in SrCodes : Construct(c)
  \/ \E o \in Objects : Build(o)
  \/ \E call \in FailureCalls : AddLayer(call)
  \/ Display

SpecFailures == Init /\ [][NextFailures]_vars

----------------------------------------------------------------------------
(* Properties *)

\* the last operation was an add_layer that returned
Added == last.op = "add_layer" /\ last.raised = "no"

NewLayer == layers[Len(layers)]

FieldNames(layer) == {f.name : f \in layer.features.fields}

Permuted(seq, p) == [i \in 1..Len(seq) |-> seq[p[i]]]

Min(a, b) == IF a < b THEN a ELSE b

Least(S) == CHOOSE x \in S : \A y \in S : x <= y

Greatest(S) == CHOOSE x \in S : \A y \in S : x >= y

\* the bounding box of a set of populated boxes
BoundingBox(boxes) ==
  IF boxes = {} THEN EmptyExtent
  ELSE << Num(Least({b[1].v : b \in boxes})), Num(Least({b[2].v : b \in boxes})),
          Num(Greatest({b[3].v : b \in boxes})), Num(Greatest({b[4].v : b \in boxes})) >>

Box(xmin, ymin, xmax, ymax) == <<Num(xmin), Num(ymin), Num(xmax), Num(ymax)>>

\* the "_references" an argument carries when the call begins
ArgReferences(arg, heap) ==
  IF arg.shape = "dict" THEN heap[arg.obj].references ELSE arg.names

\* C1: merging with the empty (NaN, NaN, NaN, NaN) box is an identity in both
\* directions for every populated box, and once some layer of the session has
\* a populated extent the unpadded extent computed by _generate_layers_js is
\* populated, also when a zero-row layer is merged after a populated one.
C1_EmptyBoxIsIdentity ==
  /\ \A i \in 1..Len(layers) :
       Populated(layers[i].extent) =>
         /\ _merge_extent(EmptyExtent, layers[i].extent) = layers[i].extent
         /\ _merge_extent(layers[i].extent, EmptyExtent) = layers[i].extent
  /\ (last.op = "display" /\ \E i \in 1..Len(layers) : Populated(layers[i].extent))
       => Populated(last.extent)

\* C2: the extent _generate_layers_js produces is the same for every order of
\* the session's layers (layers with the all-NaN extent included), and a
\* layer's extent is the same for every order of its retained rows' boxes.
C2_OrderIndependent ==
  /\ last.op = "display" =>
       \A p \in Permutations(1..Len(layers)) :
         _generate_layers_js(Permuted(layers, p)).extent_js = last.extent_js
  /\ \A i \in 1..Len(layers) :
       LET source == layers[i].features.source
           boxes == [k \in 1..Len(source) |-> source[k].geometry]
       IN \A p \in Permutations(1..Len(boxes)) :
            FoldRows(EmptyExtent, Permuted(boxes, p), 1) = layers[i].extent

\* C3: an add_layer call that raises (a label or popup of an unrecognized
\* shape, no geometry field, no spatial reference, an unrecognized geometry
\* type, a style token outside the allowed set) leaves self.layers with the
\* same elements in the same order as before the call.
C3_RaiseLeavesLayers ==
  (last.op = "add_layer" /\ last.raised # "no") => layers = last.layers_before

\* a call raised in the serializer, after the references were popped, on a
\* session that already held a layer
C3_Witness ==
  /\ last.op = "add_layer"
  /\ last.raised = "ValueError: Spatial reference is required"
  /\ Len(layers) >= 1
  /\ directives # last.before

\* C4: for a source of n >= 1 rows and a cap m, add_layer returns without
\* raising, the layer holds exactly min(n, m) feature records, they are the
\* first min(n, m) rows, and the layer's extent is the bounding box of
\* exactly those rows.
C4_CapIsMin ==
  (last.op = "add_layer" /\ RowCount(last.call.df) >= 1) =>
    /\ last.raised = "no"
    /\ LET all == RowsFrom(last.call.df.partitions, 1)
           k == Min(Len(all), last.call.max_records)
           source == NewLayer.features.source
       IN /\ Len(source) = k
          /\ \A i \in 1..k : source[i].geometry = all[i].box
          /\ NewLayer.extent = BoundingBox({all[i].box : i \in 1..k})

\* a source of three rows added under a cap of two
C4_Witness ==
  /\ Added
  /\ RowCount(last.call.df) > last.call.max_records
  /\ last.call.max_records >= 2
  /\ Len(NewLayer.features.source) = last.call.max_records

\* C5: for a populated aggregated extent of width W and height H the extent
\* emitted by _generate_layers_js is (xmin - W/10, ymin - H/10, xmax + W/10,
\* ymax + H/10): width 1.2 W, height 1.2 H, the same centre; (0,0,10,10)
\* becomes (-1,-1,11,11), and an axis of zero width or height is not padded.
C5_PaddingIsTenth ==
  (last.op = "display" /\ Populated(last.extent)) =>
    LET e == last.extent
        p == last.extent_js
        W == e[3].v - e[1].v
        H == e[4].v - e[2].v
    IN /\ Populated(p)
       /\ 10 * p[1].v = 10 * e[1].v - W
       /\ 10 * p[2].v = 10 * e[2].v - H
       /\ 10 * p[3].v = 10 * e[3].v + W
       /\ 10 * p[4].v = 10 * e[4].v + H
       /\ 10 * (p[3].v - p[1].v) = 12 * W
       /\ 10 * (p[4].v - p[2].v) = 12 * H
       /\ p[1].v + p[3].v = e[1].v + e[3].v
       /\ p[2].v + p[4].v = e[2].v + e[4].v
       /\ (W = 0 => p[1] = e[1] /\ p[3] = e[3])
       /\ (H = 0 => p[2] = e[2] /\ p[4] = e[4])
       /\ (e = Box(0, 0, 10, 10) => p = Box(-1, -1, 11, 11))

\* the session of the point rows (0,0) and (10,10), displayed
C5_Witness ==
  /\ last.op = "display"
  /\ last.extent = Box(0, 0, 10, 10)
  /\ last.extent_js = Box(-1, -1, 11, 11)

\* C6: a retained attribute column whose type has no entry in _type_mapping
\* makes add_layer raise and append no layer, and no layer carries a field
\* descriptor whose type is outside the vocabulary.
Vocabulary ==
  {"string", "small-integer", "integer", "big-integer", "single", "double"}

C6_UnmappedTypeRejected ==
  /\ \A i \in 1..Len(layers) :
       \A f \in layers[i].features.fields : f.type \in Vocabulary
  /\ ( /\ last.op = "add_layer"
       /\ \E f \in last.field_set \cap DOMAIN last.call.df.types :
            /\ f # last.call.df.geometry_field
            /\ last.call.df.types[f] \notin DOMAIN _type_mapping )
       => (last.raised # "no" /\ layers = last.layers_before)

\* C7: the fields serialized for a layer contain every field of the
\* allow-list and every field in the "_references" of the renderer, label
\* and popup (the str and list shorthands included), the geometry column
\* excepted; "__oid__" is always among them.
C7_ReferencedFieldsRetained ==
  Added =>
    LET call == last.call
        names == FieldNames(NewLayer)
        wanted == call.fields \cup ArgReferences(call.renderer, last.before)
                    \cup ArgReferences(call.label, last.before)
                    \cup ArgReferences(call.popup, last.before)
    IN /\ (wanted \ {call.df.geometry_field}) \subseteq names
       /\ oid_field \in names
       /\ call.df.geometry_field \notin names
       /\ \A k \in 1..Len(NewLayer.features.source) :
            NewLayer.features.source[k].attributes = names

\* a layer added with no allow-list, its fields named only by the label
\* shorthand and by the popup object's "_references"
C7_Witness ==
  /\ Added
  /\ last.call.fields = {}
  /\ last.call.label = Str("name")
  /\ last.call.popup = Dict("d2")
  /\ last.before["d2"].has_references
  /\ FieldNames(NewLayer) = {"name", "pop", oid_field}

\* C8: a session constructed with basemap_sr = c transforms the geometries of
\* every layer it adds to spatial reference c; 4326 is used only when no code
\* is given.
C8_SrHonoured ==
  Added => (basemap_sr = requested_sr /\ NewLayer.features.wkid = requested_sr)

C10_DirectivesUnchanged ==
  last.op = "add_layer" =>
    /\ directives = last.before
    /\ last.raised = "no" =>
         \A arg \in {last.call.renderer, last.call.label, last.call.popup} :
           arg.shape = "dict" =>
             (Fresh[arg.obj].references \ {last.call.df.geometry_field})
               \subseteq FieldNames(NewLayer)

====
